---- MODULE Spec2Model ----
(***************************************************************************)
(* Kwame (src/main.py): a facade over Starlette, Jinja2, pybars, pydantic  *)
(* and SQLAlchemy, and the three endpoints the module registers.           *)
(*                                                                         *)
(* Three specifications:                                                   *)
(*   Spec        the module as it is written: lines 135-143 build the app, *)
(*               then requests are received and dispatched to the three    *)
(*               endpoints;                                                *)
(*   SpecRoutes  the route table of any application: any sequence of       *)
(*               add_route calls, then create_app;                         *)
(*   SpecKwame   the class Kwame used by application code: set_session /   *)
(*               get_session on request objects, and get_db generators.    *)
(***************************************************************************)
EXTENDS Naturals, Sequences, FiniteSets, TLC

VARIABLES
    pc,          \* "import" (before line 135), "built" (Kwame() done), "serving" (create_app done)
    script,      \* the add_route calls the module makes, in order
    nreg,        \* how many of them have been made
    routes,      \* Kwame.routes
    app_routes,  \* Kwame.app.routes (the Starlette router's list)
    kwame_db,    \* Kwame.db: the id of a session object, 0 before __init__
    sessions,    \* the SQLAlchemy Session objects SessionLocal() has made, by id
    gens,        \* the generator objects get_db() calls have made
    users,       \* the rows of the users table of test.db
    req          \* the Request objects, by id

vars == <<pc, script, nreg, routes, app_routes, kwame_db, sessions, gens, users, req>>

(***************************** bounds **************************************)
MaxRoutes == 3    \* add_route calls of an application (SpecRoutes)
MaxReq == 2       \* Request objects in flight or served (Spec)
MaxAppReq == 1    \* Request objects handed to application code (SpecKwame)
MaxGens == 2      \* get_db() calls of an application (SpecKwame)
MaxSets == 2      \* set_session calls on one request (SpecKwame)

(************************** Python values **********************************)
PyNone == [t |-> "None"]
Str(s) == [t |-> "str", v |-> s]

\* bool(x) for None and str
Truthy(x) == IF x.t = "None" THEN FALSE ELSE x.v # ""

\* A dict is the sequence of its <<key, value>> items in insertion order.
DictKeys(d) == {d[i][1] : i \in 1..Len(d)}
DictIndex(d, k) == CHOOSE i \in 1..Len(d) : d[i][1] = k

\* dict.get(k, default)
DictGet(d, k, default) ==
    IF k \in DictKeys(d) THEN d[DictIndex(d, k)][2] ELSE default

\* d[k] = v
DictSetWrongKey(d, k, v) ==
    IF Len(d) > 0 THEN [d EXCEPT ![1] = <<d[1][1], v>>] ELSE <<<<k, v>>>>

DictSet(d, k, v) ==
    IF k \in DictKeys(d)
    THEN [d EXCEPT ![DictIndex(d, k)] = <<k, v>>]
    ELSE Append(d, <<k, v>>)

(****************************** routes *************************************)
SeqToSet(s) == {s[i] : i \in 1..Len(s)}

\* starlette.routing.Route(path, endpoint, methods=methods): the methods become
\* a set, and a route that takes GET takes HEAD too.
Route(path, endpoint, methods) ==
    [path |-> path, endpoint |-> endpoint,
     methods |-> IF "GET" \in SeqToSet(methods)
                 THEN SeqToSet(methods) \cup {"HEAD"}
                 ELSE SeqToSet(methods)]

Call(path, endpoint, methods) ==
    [path |-> path, endpoint |-> endpoint, methods |-> methods]

\* lines 138-140
MainScript ==
    << Call("/", "home_controller", <<"GET">>),
       Call("/handlebars", "handlebars_controller", <<"GET">>),
       Call("/api/create_user", "api_create_user", <<"POST">>) >>

\* the add_route calls an application may make (SpecKwame)
RouteArgs ==
    SeqToSet(MainScript) \cup
    { Call("/", "api_create_user", <<"POST">>),
      Call("/handlebars", "home_controller", <<"GET", "POST">>) }

RECURSIVE SeqsUpTo(_, _)
SeqsUpTo(S, n) ==
    IF n = 0 THEN {<<>>}
    ELSE LET shorter == SeqsUpTo(S, n - 1)
         IN  shorter \cup {Append(s, x) : s \in shorter, x \in S}

Scripts == SeqsUpTo(RouteArgs, MaxRoutes) \cup {MainScript}

Paths == {"/", "/handlebars", "/api/create_user", "/nope"}
Methods == {"GET", "HEAD", "POST"}

\* Starlette's Router: the first route whose path and method both match
\* handles the request; a path that matches with another method is a 405; no
\* match is a 404.
Dispatch(rs, path, method) ==
    LET full    == {i \in 1..Len(rs) : rs[i].path = path /\ method \in rs[i].methods}
        partial == {i \in 1..Len(rs) : rs[i].path = path}
        first   == CHOOSE i \in full : \A j \in full : i <= j
    IN  IF full # {} THEN [kind |-> "endpoint", endpoint |-> rs[first].endpoint]
        ELSE IF partial # {} THEN [kind |-> "405", endpoint |-> "none"]
        ELSE [kind |-> "404", endpoint |-> "none"]

(*********************** exceptions and responses **************************)
\* the base class of each exception class that can be raised here
Base(cls) ==
    CASE cls = "ValidationError"     -> "ValueError"
      [] cls = "ValueError"          -> "Exception"
      [] cls = "AttributeError"      -> "Exception"
      [] cls = "IntegrityError"      -> "Exception"
      [] cls = "InvalidRequestError" -> "Exception"
      [] OTHER                       -> "BaseException"

RECURSIVE IsInstance(_, _)
IsInstance(cls, of) ==
    IF cls = of THEN TRUE
    ELSE IF cls = "BaseException" THEN FALSE
    ELSE IsInstance(Base(cls), of)

\* Kwame.json_response / starlette JSONResponse(data): status 200
json_response(data) == [kind |-> "json", status |-> 200, body |-> data]

\* Kwame.render_jinja: the template named, rendered with the context
render_jinja(template_name, context) ==
    [kind |-> "html", status |-> 200, template |-> template_name, context |-> context]

\* Kwame.render_handlebars
render_handlebars(template_string, context) ==
    [kind |-> "html", status |-> 200, template |-> template_string, context |-> context]

\* an exception that leaves the endpoint
Raised(exc) == [kind |-> "raised", exc |-> exc]

(****************************** sessions ***********************************)
Keys == {"username", "theme"}
Values == {PyNone, Str(""), Str("bob")}

\* Kwame.get_session
get_session(request, key) == DictGet(request.session, key, PyNone)

\* Kwame.set_session: the request's session after the call
set_session(request, key, value) == DictSet(request.session, key, value)

\* the sessions a request arrives with (SessionMiddleware loads the cookie)
Cookies ==
    {<<>>} \cup {<< <<"username", v>> >> : v \in Values}
           \cup {<< <<"theme", Str("bob")>>, <<"username", Str("bob")>> >>}

\* the mapping a session dict stands for
MapOf(d) == [k \in Keys |-> DictGet(d, k, PyNone)]

(************************* the database session ****************************)
\* SessionLocal(): a Session with nothing pending and nothing loaded.
\* new: the pending objects; identity: the ids of the persistent ones;
\* closes: how many times close() was called on it.
SessionLocal == [new |-> <<>>, identity |-> {}, closes |-> 0]

\* Session.close(): expunges every object; the session stays usable
SessionClose(s) == [new |-> <<>>, identity |-> {}, closes |-> s.closes + 1]

\* Session.add(obj)
SessionAdd(s, obj) == [s EXCEPT !.new = Append(s.new, obj)]

Emails(tbl) == {tbl[i].email : i \in 1..Len(tbl)}
MaxId(tbl) == IF Len(tbl) = 0 THEN 0
              ELSE CHOOSE n \in {tbl[i].id : i \in 1..Len(tbl)} :
                       \A i \in 1..Len(tbl) : tbl[i].id <= n

\* the INSERTs of a flush, in order; the unique index on users.email (line 27)
\* refuses a second row with an email
RECURSIVE Flush(_, _)
Flush(pending, tbl) ==
    IF pending = <<>> THEN [exc |-> "none", table |-> tbl]
    ELSE IF Head(pending).email \in Emails(tbl)
         THEN [exc |-> "IntegrityError", table |-> tbl]
         ELSE Flush(Tail(pending),
                    Append(tbl, [id |-> MaxId(tbl) + 1,
                                 username |-> Head(pending).username,
                                 email |-> Head(pending).email]))

\* Session.commit(): flushes everything pending in one transaction; a failed
\* flush rolls the transaction back and expunges the pending objects
SessionCommit(s, tbl) ==
    LET f == Flush(s.new, tbl)
    IN  IF f.exc # "none"
        THEN [exc |-> f.exc, session |-> [s EXCEPT !.new = <<>>], table |-> tbl]
        ELSE [exc |-> "none",
              session |-> [s EXCEPT !.new = <<>>,
                                    !.identity = s.identity \cup
                                        {f.table[i].id : i \in (Len(tbl) + 1)..Len(f.table)}],
              table |-> f.table]

\* Session.refresh(obj): obj must be persistent in this session
SessionRefresh(s, id) ==
    IF id \in s.identity THEN "none" ELSE "InvalidRequestError"

\* Kwame.get_db, line 78: the session the generator yields
get_db_fresh(self_db, made) == made + 1

get_db_db(self_db, made) == self_db

\* the session objects after a get_db() that yields session db
Yielding(ss, db) == IF db > Len(ss) THEN Append(ss, SessionLocal) ELSE ss

(****************************** Kwame **************************************)
\* Kwame.add_route: the routes after the call
add_route_front(rs, path, endpoint, methods) ==
    <<Route(path, endpoint, methods)>> \o rs

add_route(rs, path, endpoint, methods) ==
    Append(rs, Route(path, endpoint, methods))

\* Kwame.create_app, line 59: the application's routes after the call
create_app(app_rs, rs) == app_rs \o rs

(***************************** endpoints ***********************************)
\* x or y
Or(x, y) == IF Truthy(x) THEN x ELSE y

\* f'{x}'
Format(x) == IF x.t = "str" THEN x.v ELSE "None"

\* home_controller, lines 102-103: the context handed to the template
home_data_raw(request) ==
    [message |-> "Hello, " \o Format(get_session(request, "username")) \o "!"]

home_data(request) ==
    [message |-> "Hello, " \o Format(Or(get_session(request, "username"), Str("Guest"))) \o "!"]

\* handlebars_controller, lines 107-118
handlebars_template == "<html><head><title>{{title}}</title></head><body><h1>{{message}}</h1></body></html>"
handlebars_data ==
    [title |-> "Handlebars Rendering in Kwame",
     message |-> "This message is rendered using Handlebars on the server."]

\* line 124, UserModel.from_request(request): UserModel (lines 93-98) declares
\* two fields and a Config, and pydantic's BaseModel has no attribute
\* from_request, so the attribute lookup raises AttributeError for every
\* request, before anything is awaited.
from_request(request) == [kind |-> "raise", exc |-> "AttributeError", value |-> PyNone]

\* line 131, except ValueError
HandledAny(exc) == IsInstance(exc, "Exception")

Handled(exc) == IsInstance(exc, "ValueError")

\* how api_create_user ends when exc is raised inside its try block
Leave(exc, ss, tbl, ops) ==
    [response |-> IF Handled(exc) THEN json_response([error |-> exc]) ELSE Raised(exc),
     failure  |-> exc,
     sessions |-> ss,
     users    |-> tbl,
     dbops    |-> ops]

\* When the generator made by next(kwame.get_db()) is finalized, which runs
\* its finally block (db.close()): the generator is a temporary, so CPython
\* finalizes it as soon as next() returns ("next"); a collector without
\* reference counts does it at any later point.
FinalizePoints == {"next", "add", "commit", "refresh"}

\* api_create_user, lines 122-132, as one run: nothing is awaited after line 124
api_create_user_run(request, self_db, ss, tbl, fin) ==
    LET res == from_request(request)
    IN  IF res.kind = "raise" THEN Leave(res.exc, ss, tbl, <<>>)
        ELSE
        LET user_data == res.value
            db   == get_db_db(self_db, Len(ss))
            ss0  == Yielding(ss, db)
            s1   == IF fin = "next" THEN SessionClose(ss0[db]) ELSE ss0[db]
            s2a  == SessionAdd(s1, [username |-> user_data.username,
                                    email |-> user_data.email])
            op1  == [op |-> "add", open |-> fin # "next"]
            s2   == IF fin = "add" THEN SessionClose(s2a) ELSE s2a
            c    == SessionCommit(s2, tbl)
            op2  == [op |-> "commit", open |-> fin \notin {"next", "add"}]
            s3   == IF fin = "commit" THEN SessionClose(c.session) ELSE c.session
            id   == IF Len(s2.new) > 0 THEN MaxId(c.table) ELSE 0
            rf   == SessionRefresh(s3, id)
            op3  == [op |-> "refresh", open |-> fin = "refresh"]
            s4   == IF fin = "refresh" THEN SessionClose(s3) ELSE s3
        IN  IF c.exc # "none"
            THEN Leave(c.exc,
                       [ss0 EXCEPT ![db] = IF fin \in {"commit", "refresh"}
                                           THEN SessionClose(c.session) ELSE c.session],
                       tbl, <<op1, op2>>)
            ELSE IF rf # "none"
            THEN Leave(rf, [ss0 EXCEPT ![db] = s4], c.table, <<op1, op2, op3>>)
            ELSE [response |-> json_response([message |-> "User created successfully",
                                              user |-> user_data]),
                  failure  |-> "none",
                  sessions |-> [ss0 EXCEPT ![db] = s4],
                  users    |-> c.table,
                  dbops    |-> <<op1, op2, op3>>]

(****************************** requests ***********************************)
NoReq == [state |-> "none"]
NoBody == [none |-> PyNone]

\* the JSON bodies a client posts
Bodies ==
    { [username |-> Str("a"), email |-> Str("a@example.com")],
      [username |-> Str("b"), email |-> Str("a@example.com")],
      [username |-> Str("a")],
      [email |-> Str("a@example.com")] }

HasStr(body, f) == f \in DOMAIN body /\ body[f].t = "str"
ValidBody(body) == HasStr(body, "username") /\ HasStr(body, "email")

\* the requests a client sends: method, path
Targets ==
    { <<"GET", "/">>, <<"HEAD", "/">>, <<"GET", "/handlebars">>,
      <<"POST", "/api/create_user">>, <<"GET", "/api/create_user">>,
      <<"GET", "/nope">> }

Routed(r, endpoint) ==
    /\ pc = "serving"
    /\ req[r].state = "received"
    /\ Dispatch(app_routes, req[r].path, req[r].method) =
           [kind |-> "endpoint", endpoint |-> endpoint]

Respond(r, response, failure, ops) ==
    req' = [req EXCEPT ![r] = [@ EXCEPT !.state = "done", !.response = response,
                                        !.failure = failure, !.dbops = ops,
                                        !.stored = Emails(users)]]

(******************************* actions ***********************************)
\* line 135: Kwame(...)
Kwame__init__ ==
    /\ pc = "import"
    /\ pc' = "built"
    /\ routes' = <<>>
    /\ app_routes' = <<>>
    /\ sessions' = Append(sessions, SessionLocal)
    /\ kwame_db' = Len(sessions) + 1
    /\ UNCHANGED <<script, nreg, gens, users, req>>

\* lines 138-140: the next add_route call of the script
AddRoute ==
    /\ pc = "built"
    /\ nreg < Len(script)
    /\ LET c == script[nreg + 1]
       IN  routes' = add_route(routes, c.path, c.endpoint, c.methods)
    /\ nreg' = nreg + 1
    /\ UNCHANGED <<pc, script, app_routes, kwame_db, sessions, gens, users, req>>

\* line 143: kwame.create_app()
CreateApp ==
    /\ pc = "built"
    /\ nreg = Len(script)
    /\ app_routes' = create_app(app_routes, routes)
    /\ pc' = "serving"
    /\ UNCHANGED <<script, nreg, routes, kwame_db, sessions, gens, users, req>>

\* the server hands the application a request; SessionMiddleware has loaded
\* its session from the cookie
Receive(r) ==
    /\ pc = "serving"
    /\ req[r].state = "none"
    /\ \A q \in DOMAIN req : q < r => req[q].state # "none"
    /\ \E t \in Targets :
       \E cookie \in (IF t[2] = "/" THEN Cookies ELSE {<<>>}) :
       \E body \in (IF t = <<"POST", "/api/create_user">> THEN Bodies ELSE {NoBody}) :
          req' = [req EXCEPT ![r] =
                     [state |-> "received", method |-> t[1], path |-> t[2],
                      session |-> cookie, body |-> body,
                      response |-> PyNone, failure |-> "none", dbops |-> <<>>,
                      stored |-> {}]]
    /\ UNCHANGED <<pc, script, nreg, routes, app_routes, kwame_db, sessions, gens, users>>

\* lines 101-104
HomeController(r) ==
    /\ Routed(r, "home_controller")
    /\ Respond(r, render_jinja("home.html", home_data(req[r])), "none", <<>>)
    /\ UNCHANGED <<pc, script, nreg, routes, app_routes, kwame_db, sessions, gens, users>>

\* lines 106-119
HandlebarsController(r) ==
    /\ Routed(r, "handlebars_controller")
    /\ Respond(r, render_handlebars(handlebars_template, handlebars_data), "none", <<>>)
    /\ UNCHANGED <<pc, script, nreg, routes, app_routes, kwame_db, sessions, gens, users>>

\* lines 122-132
ApiCreateUser(r) ==
    /\ Routed(r, "api_create_user")
    /\ \E fin \in FinalizePoints :
          LET out == api_create_user_run(req[r], kwame_db, sessions, users, fin)
          IN  /\ Respond(r, out.response, out.failure, out.dbops)
              /\ sessions' = out.sessions
              /\ users' = out.users
    /\ UNCHANGED <<pc, script, nreg, routes, app_routes, kwame_db, gens>>

\* (failure, dbops and stored record, for each served request, the exception
\* raised inside the endpoint, the session calls it made and whether get_db's
\* close() had not yet run at each, and the emails stored when it ran.)

\* no route takes the request: Starlette answers 404 or 405 itself
NotRouted(r) ==
    /\ pc = "serving"
    /\ req[r].state = "received"
    /\ LET d == Dispatch(app_routes, req[r].path, req[r].method)
       IN  /\ d.kind # "endpoint"
           /\ Respond(r, [kind |-> "plain", status |-> IF d.kind = "404" THEN 404 ELSE 405],
                      "none", <<>>)
    /\ UNCHANGED <<pc, script, nreg, routes, app_routes, kwame_db, sessions, gens, users>>

\* application code is handed a request object
NewRequest(r) ==
    /\ pc = "serving"
    /\ req[r].state = "none"
    /\ \A q \in DOMAIN req : q < r => req[q].state # "none"
    /\ \E cookie \in Cookies :
          req' = [req EXCEPT ![r] = [state |-> "app", session |-> cookie,
                                    written |-> MapOf(cookie), nsets |-> 0]]
    /\ UNCHANGED <<pc, script, nreg, routes, app_routes, kwame_db, sessions, gens, users>>

\* application code calls kwame.set_session(request, key, value), lines 84-86
SetSession(r, key, value) ==
    /\ req[r].state = "app"
    /\ req[r].nsets < MaxSets
    /\ req' = [req EXCEPT ![r] = [@ EXCEPT !.session = set_session(req[r], key, value),
                                          !.written = [@ EXCEPT ![key] = value],
                                          !.nsets = @ + 1]]
    /\ UNCHANGED <<pc, script, nreg, routes, app_routes, kwame_db, sessions, gens, users>>

\* application code calls next(kwame.get_db()) and keeps the generator:
\* lines 78-80, up to the yield
GetDbNext ==
    /\ pc = "serving"
    /\ Len(gens) < MaxGens
    /\ LET db == get_db_db(kwame_db, Len(sessions))
       IN  /\ sessions' = Yielding(sessions, db)
           /\ gens' = Append(gens, [db |-> db, state |-> "suspended"])
    /\ UNCHANGED <<pc, script, nreg, routes, app_routes, kwame_db, users, req>>

\* a suspended get_db generator is closed or collected: lines 81-82
GetDbFinally(g) ==
    /\ gens[g].state = "suspended"
    /\ gens' = [gens EXCEPT ![g].state = "closed"]
    /\ sessions' = [sessions EXCEPT ![gens[g].db] = SessionClose(@)]
    /\ UNCHANGED <<pc, script, nreg, routes, app_routes, kwame_db, users, req>>

(**************************** specifications *******************************)
InitWith(scripts, nreq) ==
    /\ pc = "import"
    /\ script \in scripts
    /\ nreg = 0
    /\ routes = <<>>
    /\ app_routes = <<>>
    /\ kwame_db = 0
    /\ sessions = <<>>
    /\ gens = <<>>
    /\ users = <<>>
    /\ req = [r \in 1..nreq |-> NoReq]

Build == Kwame__init__ \/ AddRoute \/ CreateApp

\* the module as written
Init == InitWith({MainScript}, MaxReq)
Next ==
    \/ Build
    \/ \E r \in DOMAIN req : Receive(r)
    \/ \E r \in DOMAIN req : HomeController(r)
    \/ \E r \in DOMAIN req : HandlebarsController(r)
    \/ \E r \in DOMAIN req : ApiCreateUser(r)
    \/ \E r \in DOMAIN req : NotRouted(r)
Spec == Init /\ [][Next]_vars

\* any application's route table
InitRoutes == InitWith(Scripts, 0)
SpecRoutes == InitRoutes /\ [][Build]_vars

\* any application's use of sessions and of get_db
InitKwame == InitWith({MainScript}, MaxAppReq)
NextKwame ==
    \/ Build
    \/ \E r \in DOMAIN req : NewRequest(r)
    \/ \E r \in DOMAIN req, k \in Keys, v \in Values : SetSession(r, k, v)
    \/ GetDbNext
    \/ \E g \in DOMAIN gens : GetDbFinally(g)
SpecKwame == InitKwame /\ [][NextKwame]_vars

(******************************* claims ************************************)
Done(r) == req[r].state = "done"
Posted(r) == Done(r) /\ req[r].method = "POST" /\ req[r].path = "/api/create_user"
ValidNew(r) == Posted(r) /\ ValidBody(req[r].body) /\ req[r].body.email.v \notin req[r].stored
OpNames(ops) == [i \in 1..Len(ops) |-> ops[i].op]

\* C1: every POST /api/create_user whose body has a string username and a
\* string email, the email not yet stored, is answered with the success JSON
\* body that echoes that username and email; no error body, no exception.
C1_ValidPostEchoes ==
    \A r \in DOMAIN req :
        ValidNew(r) =>
            req[r].response =
                json_response([message |-> "User created successfully",
                               user |-> [username |-> req[r].body.username.v,
                                         email |-> req[r].body.email.v]])

\* C2: every POST /api/create_user whose body lacks username or email is
\* answered with a 200 JSON response whose body has an error key; no
\* exception leaves the handler.
C2_MissingFieldErrorBody ==
    \A r \in DOMAIN req :
        (Posted(r) /\ ~ValidBody(req[r].body)) =>
            /\ req[r].response.kind = "json"
            /\ req[r].response.status = 200
            /\ "error" \in DOMAIN req[r].response.body

\* C3: home_controller answers with home.html rendered with the message
\* "Hello, <username>!" for the non-empty string stored under the session key
\* username, and "Hello, Guest!" when that key is absent, None or empty.
SessionHas(d, k, v) == \E i \in 1..Len(d) : d[i] = <<k, v>>
C3_Greeting ==
    \A r \in DOMAIN req :
        (Done(r) /\ req[r].path = "/" /\ req[r].method \in {"GET", "HEAD"}) =>
            /\ req[r].response.kind = "html"
            /\ req[r].response.template = "home.html"
            /\ \A v \in Values :
                  (v.t = "str" /\ v.v # "" /\ SessionHas(req[r].session, "username", v)) =>
                      req[r].response.context.message = "Hello, " \o v.v \o "!"
            /\ (\/ "username" \notin DictKeys(req[r].session)
                \/ SessionHas(req[r].session, "username", PyNone)
                \/ SessionHas(req[r].session, "username", Str("")))
                  => req[r].response.context.message = "Hello, Guest!"
C3_Witness ==
    \E r, q \in DOMAIN req :
        /\ Done(r) /\ req[r].method = "GET" /\ req[r].path = "/"
        /\ SessionHas(req[r].session, "username", Str("bob"))
        /\ req[r].response.context.message = "Hello, bob!"
        /\ Done(q) /\ req[q].method = "GET" /\ req[q].path = "/"
        /\ SessionHas(req[q].session, "username", Str(""))
        /\ req[q].response.context.message = "Hello, Guest!"

\* C4 as amended: after the add_route calls and create_app, the application's
\* route table holds the registered routes, each once and in registration
\* order, each with the methods it was registered with plus HEAD when GET is
\* among them; for this module the pairs routed to an endpoint are GET and
\* HEAD of / and of /handlebars and POST of /api/create_user, and no other.
Registered(i, ms) ==
    [path |-> script[i].path, endpoint |-> script[i].endpoint, methods |-> ms]
Endpoint(e) == [kind |-> "endpoint", endpoint |-> e]
C4_RouteTableWithHead ==
    pc = "serving" =>
        /\ Len(app_routes) = Len(script)
        /\ \A i \in 1..Len(script) :
              app_routes[i] =
                  Registered(i, SeqToSet(script[i].methods) \cup
                                (IF "GET" \in SeqToSet(script[i].methods)
                                 THEN {"HEAD"} ELSE {}))
        /\ script = MainScript =>
              \A p \in Paths, m \in Methods :
                  Dispatch(app_routes, p, m) =
                      IF p = "/" /\ m \in {"GET", "HEAD"}
                      THEN Endpoint("home_controller")
                      ELSE IF p = "/handlebars" /\ m \in {"GET", "HEAD"}
                      THEN Endpoint("handlebars_controller")
                      ELSE IF p = "/api/create_user" /\ m = "POST"
                      THEN Endpoint("api_create_user")
                      ELSE [kind |-> IF p = "/nope" THEN "404" ELSE "405",
                            endpoint |-> "none"]
C4_Witness ==
    /\ pc = "serving"
    /\ script = MainScript
    /\ Len(app_routes) = 3

\* C4 as stated: each route has exactly the methods it was registered with,
\* and for this module no pair but GET /, GET /handlebars and
\* POST /api/create_user is routed to an endpoint.
C4_RouteTableExact ==
    pc = "serving" =>
        /\ Len(app_routes) = Len(script)
        /\ \A i \in 1..Len(script) :
              app_routes[i] = Registered(i, SeqToSet(script[i].methods))
        /\ script = MainScript =>
              \A p \in Paths, m \in Methods :
                  Dispatch(app_routes, p, m).kind = "endpoint" <=>
                      <<m, p>> \in { <<"GET", "/">>, <<"GET", "/handlebars">>,
                                     <<"POST", "/api/create_user">> }

\* C5: within one request's session, get_session(request, k) returns the
\* value last written by set_session(request, k, v), returns None for a key
\* never written, and a write to k leaves what every other key reads.
C5_SessionRoundTrip ==
    \A r \in DOMAIN req :
        req[r].state = "app" =>
            \A k \in Keys : get_session(req[r], k) = req[r].written[k]
C5_Witness ==
    \E r \in DOMAIN req :
        /\ req[r].state = "app"
        /\ req[r].nsets = 2
        /\ req[r].written["theme"] = Str("")
        /\ req[r].written["username"] = PyNone
        /\ Len(req[r].session) = 1

\* C6: a Kwame instance has exactly one database session, made in __init__,
\* and every get_db generator yields that session, whenever it is called.
C6_OneSharedSession ==
    /\ Len(sessions) = (IF pc = "import" THEN 0 ELSE 1)
    /\ kwame_db = Len(sessions)
    /\ \A g \in DOMAIN gens : gens[g].db = kwame_db
C6_Witness ==
    /\ Len(gens) = 2
    /\ gens[1].state = "closed"
    /\ gens[2].state = "suspended"
    /\ gens[2].db = gens[1].db
    /\ sessions[kwame_db].closes = 1

\* C8: an exception raised while api_create_user serves a request that is
\* not the schema-validation failure is not turned into an error body: it
\* leaves the handler; an error body is the answer to a validation failure
\* only.
C8_OnlyValidationHandled ==
    \A r \in DOMAIN req :
        Posted(r) =>
            /\ (req[r].failure \notin {"none", "ValidationError"})
                  => req[r].response = Raised(req[r].failure)
            /\ (req[r].response.kind = "json" /\ "error" \in DOMAIN req[r].response.body)
                  => req[r].failure = "ValidationError"
C8_Witness ==
    \E r \in DOMAIN req :
        /\ Posted(r)
        /\ req[r].failure = "AttributeError"
        /\ req[r].response = Raised("AttributeError")

\* C9: a request that api_create_user serves with a valid body executes add,
\* commit and refresh, each while the session that next(kwame.get_db())
\* yielded has not yet been closed by get_db's finally block.
C9_OpenAtEachStep ==
    \A r \in DOMAIN req :
        ValidNew(r) =>
            /\ Len(req[r].dbops) = 3
            /\ \A i \in 1..Len(req[r].dbops) : req[r].dbops[i].open

\* C10: the session steps of a request with a valid body are add, commit,
\* refresh, in that order and once each, and with them its commit stores its
\* own row and no other.
C10_StepsInOrderOnce ==
    \A r \in DOMAIN req :
        ValidNew(r) =>
            /\ OpNames(req[r].dbops) = <<"add", "commit", "refresh">>
            /\ req[r].body.email.v \in Emails(users)

====
